---- MODULE Spec2Model ----
(***************************************************************************)
(* Model of src/server.js, the POST /api/did-talk handler: one job         *)
(* creation call to the D-ID provider followed by a wait-then-query poll   *)
(* loop, and the responses the handler hands to Express.                   *)
(*                                                                         *)
(* Every await of the handler is a step boundary.  The provider is the     *)
(* environment: each outbound call either rejects or resolves with a       *)
(* response the provider chooses.  Several requests run concurrently in    *)
(* one Node process.                                                       *)
(***************************************************************************)
EXTENDS Integers, Sequences, FiniteSets, TLC

\* Concurrent requests served by the one process.
Sessions == {"r1", "r2"}

\* Poll counters saturate at MaxPolls (a counter equal to MaxPolls reads
\* "MaxPolls or more"); below it they are exact.
MaxPolls == 4

\* The contract's wait interval between status queries, in time units.
FullWait == 3

\* A field that a JSON object or a response body does not carry.
Absent == "<absent>"

(***************************************************************************)
(* JavaScript values that flow through the handler.                        *)
(***************************************************************************)
JsValue(t, s, i, st, url, det) ==
    [type |-> t, str |-> s, id |-> i, status |-> st, result_url |-> url, detail |-> det]

JsUndefined == JsValue("undefined", Absent, Absent, Absent, Absent, Absent)

JsNull == JsValue("null", Absent, Absent, Absent, Absent, Absent)

JsStr(s) == JsValue("string", s, Absent, Absent, Absent, Absent)

JsObj(i, st, url, det) == JsValue("object", Absent, i, st, url, det)

\* A thrown value: the handler only ever reads err.message.
JsError == JsValue("error", Absent, Absent, Absent, Absent, Absent)

\* Values of req.body.text: missing, empty, non-empty.
TextInputs == {JsUndefined, JsStr(""), JsStr("Hello world")}

\* A check for a missing field only, which lets the empty string through.
TextMissingOnly(text) == text.type = "undefined"

\* !text
TextFalsy(text) == text.type \in {"undefined", "null"} \/ (text.type = "string" /\ text.str = "")

\* process.env.DID_API_KEY: unset or set.
ApiKeys == {"", "key"}

(***************************************************************************)
(* Bodies the provider may send, as raw text.                              *)
(***************************************************************************)
CreateBodies ==
    { "{\"id\":\"abc123\"}", "{\"id\":\"xyz\"}", "{}", "Unauthorized", "null" }

\* The provider gives every job it creates an identifier of its own.
JobIdBody(s) == IF s = "r1" THEN "{\"id\":\"abc123\"}" ELSE "{\"id\":\"xyz\"}"

CreateBodiesFor(s) == CreateBodies \ { JobIdBody(t) : t \in Sessions \ {s} }

StatusBodies ==
    { "{\"status\":\"pending\"}",
      "{\"status\":\"done\",\"result_url\":\"https://cdn/video.mp4\"}",
      "{\"status\":\"done\"}",
      "{\"status\":\"error\",\"detail\":\"synthesis failed\"}",
      "{\"kind\":\"NotFound\"}",
      "Bad Gateway" }

\* JSON.parse as Response.json() applies it; ParseFailed stands for the
\* SyntaxError it throws.
ParseFailed == JsError

ParseJson(raw) ==
    CASE raw = "{\"id\":\"abc123\"}" -> JsObj("abc123", Absent, Absent, Absent)
      [] raw = "{\"id\":\"xyz\"}" -> JsObj("xyz", Absent, Absent, Absent)
      [] raw = "{}" -> JsObj(Absent, Absent, Absent, Absent)
      [] raw = "null" -> JsNull
      [] raw = "{\"status\":\"pending\"}" -> JsObj(Absent, "pending", Absent, Absent)
      [] raw = "{\"status\":\"done\",\"result_url\":\"https://cdn/video.mp4\"}" ->
             JsObj(Absent, "done", "https://cdn/video.mp4", Absent)
      [] raw = "{\"status\":\"done\"}" -> JsObj(Absent, "done", Absent, Absent)
      [] raw = "{\"status\":\"error\",\"detail\":\"synthesis failed\"}" ->
             JsObj(Absent, "error", Absent, "synthesis failed")
      [] raw = "{\"kind\":\"NotFound\"}" -> JsObj(Absent, Absent, Absent, Absent)
      [] OTHER -> ParseFailed

\* A fetch Response: the ok flag and the raw body.  NoResponse before the
\* fetch has resolved.
NoResponse == [ok |-> FALSE, body |-> Absent]

Responses(bodies) == [ok : BOOLEAN, body : bodies]

\* The answers to a status query: the job's status with a success code, or
\* an error reply (a JSON error object, or a gateway's plain text).
StatusResponses ==
    { r \in Responses(StatusBodies) :
         r.ok <=> r.body \notin {"{\"kind\":\"NotFound\"}", "Bad Gateway"} }

\* createData.id -- a property read of a missing field is undefined.
Field(v) == IF v = Absent THEN JsUndefined ELSE JsStr(v)

\* A status URL that does not carry the job handle.
UrlPartUndefined(v) == "undefined"

\* `${talkId}` in the status URL.
UrlPart(v) == IF v.type = "undefined" THEN "undefined" ELSE v.str


(***************************************************************************)
(* What the handler hands to Express.                                      *)
(***************************************************************************)
\* The argument of one res.json call together with res.statusCode.
Reply(code, error, detail, videoUrl) ==
    [code |-> code, error |-> error, detail |-> detail, videoUrl |-> videoUrl]

\* err.message of the errors the handler can catch.
FetchFailedMsg == "fetch failed"

BodyUnusableMsg == "Body is unusable: Body has already been read"

SyntaxErrorMsg == "Unexpected token"

NullReadMsg == "Cannot read properties of null (reading 'id')"

HeadersSentMsg == "Cannot set headers after they are sent to the client"

\* res.json appends to the calls made on this response; only the first one
\* reaches the client, a later one throws ERR_HTTP_HEADERS_SENT.
Send(calls, reply) == Append(calls, reply)

Throws(calls) == Len(calls) > 0

ValidationReply == Reply(400, "text required", JsUndefined, JsUndefined)

ConfigReply == Reply(500, "D-ID key or source image not configured", JsUndefined, JsUndefined)

CreationFailedReply(raw) == Reply(200, "D-ID creation failed", JsStr(raw), JsUndefined)

\* The catch block's reply with the status of a job-level failure.
CatchReply500(msg) == Reply(500, "D-ID error", JsStr(msg), JsUndefined)

\* res.status(502).json({ error: "D-ID error", detail: err.message })
CatchReply(msg) == Reply(502, "D-ID error", JsStr(msg), JsUndefined)

\* The failure reply carrying the status word instead of the payload.
ProcessingFailedReplyStatusOnly(tr) ==
    Reply(500, "D-ID processing failed", JsStr(tr.status), JsUndefined)

\* res.status(500).json({ error: "D-ID processing failed", detail: talkResult })
ProcessingFailedReply(tr) == Reply(500, "D-ID processing failed", tr, JsUndefined)

\* No fallback: the result field is left unset when result_url is absent.
VideoUrlOrUnset(tr) == IF tr.result_url # Absent THEN JsStr(tr.result_url) ELSE JsUndefined

\* The whole payload in place of its result_url.
VideoUrlWhole(tr) == tr

\* talkResult.result_url ?? talkResult
VideoUrl(tr) == IF tr.result_url # Absent THEN JsStr(tr.result_url) ELSE tr

VideoReply(tr) == Reply(200, Absent, JsUndefined, VideoUrl(tr))

\* The catch block: one more res.json; if that throws, the handler's promise
\* rejects, otherwise the handler returns.
Catch(calls, msg) ==
    [calls |-> Send(calls, CatchReply(msg)),
     pc    |-> IF Throws(calls) THEN "rejected" ELSE "end"]

\* A loop that ends on any parsed status object.
LoopCondObjectEnds(tr) ==
    tr.type \in {"undefined", "null"}

\* A loop that ends only when a result URL has arrived.
LoopCondUntilUrl(tr) ==
    tr.type \in {"undefined", "null"} \/ tr.result_url = Absent

\* A loop that only done ends.
LoopCondDoneOnly(tr) ==
    tr.type \in {"undefined", "null"} \/ tr.status # "done"

\* The while condition: !talkResult || (status !== 'done' && status !== 'error')
LoopCond(tr) ==
    tr.type \in {"undefined", "null"} \/ (tr.status # "done" /\ tr.status # "error")

\* The statements after the loop, run in one go: the done branch does not
\* return, so the failure res.json below it runs as well.
AfterLoop(calls, tr) ==
    IF tr.status = "done"
    THEN IF Throws(calls)
         THEN Catch(Send(calls, VideoReply(tr)), HeadersSentMsg)
         ELSE Catch(Send(Send(calls, VideoReply(tr)), ProcessingFailedReply(tr)),
                    HeadersSentMsg)
    ELSE IF Throws(calls)
         THEN Catch(Send(calls, ProcessingFailedReply(tr)), HeadersSentMsg)
         ELSE [calls |-> Send(calls, ProcessingFailedReply(tr)), pc |-> "end"]

\* A timer one time unit short of the interval.
PollDelayShort == FullWait - 1

\* setTimeout(resolve, 3000), in time units.

PollDelay == 3

Inc(n) == IF n < MaxPolls THEN n + 1 ELSE MaxPolls

(***************************************************************************)
(* State.                                                                  *)
(***************************************************************************)
VARIABLES
    DID_API_KEY,     \* process.env.DID_API_KEY
    procUp,          \* the Node process is running
    pc,              \* per request: the await the handler is suspended at
    text,            \* req.body.text
    createResponse,  \* the Response of the creation fetch
    bodyUsed,        \* createResponse's body has been read
    talkId,          \* createData.id
    getResponse,     \* the Response of the status fetch of this iteration
    talkResult,      \* the latest parsed status
    timer,           \* time units left on the pending setTimeout
    resCalls,        \* the res.json calls made so far, in order
    clientGone,      \* the request's connection was closed by the client
    creates,         \* history: creation calls issued
    queries,         \* history: status queries issued
    waits,           \* history: waits completed
    observed,        \* history: status responses parsed
    elapsed,         \* history: time units since the current wait began
    inflight,        \* history: status queries not yet answered and parsed
    queryIds         \* history: the identifiers the status queries used

hist == <<creates, queries, waits, observed, elapsed, inflight, queryIds>>

vars == <<DID_API_KEY, procUp, pc, text, createResponse, bodyUsed, talkId,
          getResponse, talkResult, timer, resCalls, clientGone, hist>>

Init ==
    /\ DID_API_KEY \in ApiKeys
    /\ procUp = TRUE
    /\ pc = [s \in Sessions |-> "idle"]
    /\ text = [s \in Sessions |-> JsUndefined]
    /\ createResponse = [s \in Sessions |-> NoResponse]
    /\ bodyUsed = [s \in Sessions |-> FALSE]
    /\ talkId = [s \in Sessions |-> JsUndefined]
    /\ getResponse = [s \in Sessions |-> NoResponse]
    /\ talkResult = [s \in Sessions |-> JsUndefined]
    /\ timer = [s \in Sessions |-> 0]
    /\ resCalls = [s \in Sessions |-> << >>]
    /\ clientGone = [s \in Sessions |-> FALSE]
    /\ creates = [s \in Sessions |-> 0]
    /\ queries = [s \in Sessions |-> 0]
    /\ waits = [s \in Sessions |-> 0]
    /\ observed = [s \in Sessions |-> 0]
    /\ elapsed = [s \in Sessions |-> 0]
    /\ inflight = [s \in Sessions |-> 0]
    /\ queryIds = [s \in Sessions |-> {}]

\* The handler reaches its catch block, or returns, with these calls made.
Finish(s, r) ==
    /\ resCalls' = [resCalls EXCEPT ![s] = r.calls]
    /\ pc' = [pc EXCEPT ![s] = r.pc]

\* Top of the while loop with talkResult = tr.
Loop(s, tr) ==
    IF LoopCond(tr)
    THEN /\ timer' = [timer EXCEPT ![s] = PollDelay]
         /\ elapsed' = [elapsed EXCEPT ![s] = 0]
         /\ pc' = [pc EXCEPT ![s] = "wait"]
         /\ UNCHANGED resCalls
    ELSE /\ Finish(s, AfterLoop(resCalls[s], tr))
         /\ UNCHANGED <<timer, elapsed>>

\* A request arrives: the text check, the configuration check, and the
\* creation fetch is issued.
Request(s, t) ==
    /\ procUp /\ pc[s] = "idle"
    /\ text' = [text EXCEPT ![s] = t]
    /\ IF TextFalsy(t)
       THEN /\ Finish(s, [calls |-> Send(resCalls[s], ValidationReply), pc |-> "end"])
            /\ UNCHANGED creates
       ELSE IF DID_API_KEY = ""
       THEN /\ Finish(s, [calls |-> Send(resCalls[s], ConfigReply), pc |-> "end"])
            /\ UNCHANGED creates
       ELSE /\ pc' = [pc EXCEPT ![s] = "createFetch"]
            /\ creates' = [creates EXCEPT ![s] = @ + 1]
            /\ UNCHANGED resCalls
    /\ UNCHANGED <<DID_API_KEY, clientGone, procUp, createResponse, bodyUsed, talkId, getResponse,
                   talkResult, timer, queries, waits, observed, elapsed, inflight, queryIds>>

\* A handler that answers a non-success creation response by issuing the
\* creation call again.
CreateFetchSettledRetry(s) ==
    /\ procUp /\ pc[s] = "createFetch"
    /\ \/ /\ Finish(s, Catch(resCalls[s], FetchFailedMsg))
          /\ UNCHANGED <<createResponse, creates>>
       \/ \E r \in Responses(CreateBodiesFor(s)) :
             /\ createResponse' = [createResponse EXCEPT ![s] = r]
             /\ pc' = [pc EXCEPT ![s] = IF r.ok THEN "createJson" ELSE "createFetch"]
             /\ creates' = [creates EXCEPT ![s] = IF r.ok THEN @ ELSE Inc(@)]
             /\ UNCHANGED resCalls
    /\ UNCHANGED <<DID_API_KEY, clientGone, procUp, text, bodyUsed, talkId, getResponse, talkResult,
                   timer, queries, waits, observed, elapsed, inflight, queryIds>>

\* The creation fetch settles.
CreateFetchSettled(s) ==
    /\ procUp /\ pc[s] = "createFetch"
    /\ \/ /\ Finish(s, Catch(resCalls[s], FetchFailedMsg))
          /\ UNCHANGED createResponse
       \/ \E r \in Responses(CreateBodiesFor(s)) :
             /\ createResponse' = [createResponse EXCEPT ![s] = r]
             /\ pc' = [pc EXCEPT ![s] = IF r.ok THEN "createJson" ELSE "createText"]
             /\ UNCHANGED resCalls
    /\ UNCHANGED <<DID_API_KEY, clientGone, procUp, text, bodyUsed, talkId, getResponse, talkResult,
                   timer, hist>>

\* Not ok: createResponse.text() resolves, res.json reports the failure,
\* and the handler goes on to createResponse.json().
CreateText(s) ==
    /\ procUp /\ pc[s] = "createText"
    /\ bodyUsed' = [bodyUsed EXCEPT ![s] = TRUE]
    /\ IF Throws(resCalls[s])
       THEN Finish(s, Catch(Send(resCalls[s], CreationFailedReply(createResponse[s].body)),
                            HeadersSentMsg))
       ELSE Finish(s, [calls |-> Send(resCalls[s], CreationFailedReply(createResponse[s].body)),
                       pc |-> "createJson"])
    /\ UNCHANGED <<DID_API_KEY, clientGone, procUp, text, createResponse, talkId, getResponse,
                   talkResult, timer, hist>>

\* createResponse.json() settles; talkId is read and the loop is entered.
CreateJson(s) ==
    /\ procUp /\ pc[s] = "createJson"
    /\ bodyUsed' = [bodyUsed EXCEPT ![s] = TRUE]
    /\ LET createData == ParseJson(createResponse[s].body) IN
       IF bodyUsed[s]
       THEN /\ Finish(s, Catch(resCalls[s], BodyUnusableMsg))
            /\ UNCHANGED <<talkId, timer, elapsed>>
       ELSE IF createData = ParseFailed
       THEN /\ Finish(s, Catch(resCalls[s], SyntaxErrorMsg))
            /\ UNCHANGED <<talkId, timer, elapsed>>
       ELSE IF createData.type = "null"
       THEN /\ Finish(s, Catch(resCalls[s], NullReadMsg))
            /\ UNCHANGED <<talkId, timer, elapsed>>
       ELSE /\ talkId' = [talkId EXCEPT ![s] = Field(createData.id)]
            /\ Loop(s, talkResult[s])
    /\ UNCHANGED <<DID_API_KEY, clientGone, procUp, text, createResponse, getResponse, talkResult,
                   creates, queries, waits, observed, inflight, queryIds>>

\* The timer fires and the status fetch is issued.
TimerFire(s) ==
    /\ procUp /\ pc[s] = "wait" /\ timer[s] = 0
    /\ waits' = [waits EXCEPT ![s] = Inc(@)]
    /\ queries' = [queries EXCEPT ![s] = Inc(@)]
    /\ inflight' = [inflight EXCEPT ![s] = @ + 1]
    /\ queryIds' = [queryIds EXCEPT ![s] = @ \cup {UrlPart(talkId[s])}]
    /\ pc' = [pc EXCEPT ![s] = "statusFetch"]
    /\ UNCHANGED <<DID_API_KEY, clientGone, procUp, text, createResponse, bodyUsed, talkId, getResponse,
                   talkResult, timer, resCalls, creates, observed, elapsed>>

\* The status fetch settles.
StatusFetchSettled(s) ==
    /\ procUp /\ pc[s] = "statusFetch"
    /\ \/ /\ Finish(s, Catch(resCalls[s], FetchFailedMsg))
          /\ inflight' = [inflight EXCEPT ![s] = @ - 1]
          /\ UNCHANGED getResponse
       \/ \E r \in StatusResponses :
             /\ getResponse' = [getResponse EXCEPT ![s] = r]
             /\ pc' = [pc EXCEPT ![s] = "statusJson"]
             /\ UNCHANGED <<resCalls, inflight>>
    /\ UNCHANGED <<DID_API_KEY, clientGone, procUp, text, createResponse, bodyUsed, talkId, talkResult,
                   timer, creates, queries, waits, observed, elapsed, queryIds>>

\* getResponse.json() settles: talkResult is replaced and the loop condition
\* is evaluated again; on exit the terminal handling runs.
StatusJson(s) ==
    /\ procUp /\ pc[s] = "statusJson"
    /\ inflight' = [inflight EXCEPT ![s] = @ - 1]
    /\ getResponse' = [getResponse EXCEPT ![s] = NoResponse]
    /\ LET parsed == ParseJson(getResponse[s].body) IN
       IF parsed = ParseFailed
       THEN /\ Finish(s, Catch(resCalls[s], SyntaxErrorMsg))
            /\ UNCHANGED <<talkResult, observed, timer, elapsed>>
       ELSE /\ talkResult' = [talkResult EXCEPT ![s] = parsed]
            /\ observed' = [observed EXCEPT ![s] = Inc(@)]
            /\ Loop(s, parsed)
    /\ UNCHANGED <<DID_API_KEY, clientGone, procUp, text, createResponse, bodyUsed, talkId,
                   creates, queries, waits, queryIds>>

\* Time passes: every pending timer runs down together.
Tick ==
    /\ procUp
    /\ \E s \in Sessions : pc[s] = "wait" /\ timer[s] > 0
    /\ timer' = [s \in Sessions |->
                   IF pc[s] = "wait" /\ timer[s] > 0 THEN timer[s] - 1 ELSE timer[s]]
    /\ elapsed' = [s \in Sessions |->
                   IF pc[s] = "wait" /\ elapsed[s] < FullWait THEN elapsed[s] + 1 ELSE elapsed[s]]
    /\ UNCHANGED <<DID_API_KEY, clientGone, procUp, pc, text, createResponse, bodyUsed, talkId,
                   getResponse, talkResult, resCalls, creates, queries, waits, observed,
                   inflight, queryIds>>

\* The handler's promise rejected with nobody awaiting it: depending on the
\* Node and Express versions the rejection is dropped or the process exits.
UnhandledRejection(s) ==
    /\ procUp /\ pc[s] = "rejected"
    /\ \/ /\ pc' = [pc EXCEPT ![s] = "aborted"]
          /\ UNCHANGED procUp
       \/ /\ procUp' = FALSE
          /\ UNCHANGED pc
    /\ UNCHANGED <<DID_API_KEY, clientGone, text, createResponse, bodyUsed, talkId, getResponse,
                   talkResult, timer, resCalls, hist>>

\* A client whose request is waiting for its response that drops the
\* connection, and a handler that gives the request up when it does.
ClientDisconnectAborts(s) ==
    /\ procUp /\ pc[s] \notin {"idle", "end", "rejected", "aborted"} /\ ~clientGone[s]
    /\ clientGone' = [clientGone EXCEPT ![s] = TRUE]
    /\ pc' = [pc EXCEPT ![s] = "aborted"]
    /\ UNCHANGED <<DID_API_KEY, procUp, text, createResponse, bodyUsed, talkId,
                   getResponse, talkResult, timer, resCalls, hist>>

\* The client drops the connection while its request is being handled.  The
\* handler registers no listener on req or res and passes no abort signal to
\* its fetches, so only the socket's state changes.
ClientDisconnect(s) ==
    /\ procUp /\ pc[s] \notin {"idle", "end", "rejected", "aborted"} /\ ~clientGone[s]
    /\ clientGone' = [clientGone EXCEPT ![s] = TRUE]
    /\ UNCHANGED <<DID_API_KEY, procUp, pc, text, createResponse, bodyUsed, talkId,
                   getResponse, talkResult, timer, resCalls, hist>>

Next ==
    \/ \E s \in Sessions, t \in TextInputs : Request(s, t)
    \/ \E s \in Sessions : CreateFetchSettled(s)
    \/ \E s \in Sessions : CreateText(s)
    \/ \E s \in Sessions : CreateJson(s)
    \/ \E s \in Sessions : TimerFire(s)
    \/ \E s \in Sessions : StatusFetchSettled(s)
    \/ \E s \in Sessions : StatusJson(s)
    \/ \E s \in Sessions : UnhandledRejection(s)
    \/ \E s \in Sessions : ClientDisconnect(s)
    \/ Tick

Spec == Init /\ [][Next]_vars


\* Timers fire, outbound calls settle (fetch itself gives up on a silent
\* peer) and promise continuations run; nothing obliges a client to send a
\* request, nor the provider to ever answer with a terminal status.
Fairness ==
    /\ WF_vars(Tick)
    /\ \A s \in Sessions :
          /\ WF_vars(CreateFetchSettled(s))
          /\ WF_vars(CreateText(s))
          /\ WF_vars(CreateJson(s))
          /\ WF_vars(TimerFire(s))
          /\ WF_vars(StatusFetchSettled(s))
          /\ WF_vars(StatusJson(s))
          /\ WF_vars(UnhandledRejection(s))

FairSpec == Spec /\ Fairness

(***************************************************************************)
(* Vocabulary of the properties.                                           *)
(***************************************************************************)
InLoop(s) == pc[s] \in {"wait", "statusFetch", "statusJson"}

HandlerOver(s) == pc[s] \in {"end", "rejected", "aborted"}

Terminal(tr) == tr.type = "object" /\ tr.status \in {"done", "error"}

IsFailure(reply) == reply.error # Absent

IsSuccess(reply) == reply.error = Absent /\ reply.videoUrl.type # "undefined"

\* The status bodies that report a finished job.
TerminalBodies == { b \in StatusBodies : Terminal(ParseJson(b)) }

\* The status fetch settles with the report of a finished job.
StatusFetchSettledTerminal(s) ==
    StatusFetchSettled(s) /\ getResponse'[s].body \in TerminalBodies

\* A provider that does not report a job as unfinished forever.
ProviderFairness == \A s \in Sessions : SF_vars(StatusFetchSettledTerminal(s))

\* The server with one request already answered (it had no text) and the
\* other still to come.
OneRequestInit ==
    /\ DID_API_KEY \in ApiKeys
    /\ procUp = TRUE
    /\ pc = [s \in Sessions |-> IF s = "r2" THEN "end" ELSE "idle"]
    /\ text = [s \in Sessions |-> JsUndefined]
    /\ createResponse = [s \in Sessions |-> NoResponse]
    /\ bodyUsed = [s \in Sessions |-> FALSE]
    /\ talkId = [s \in Sessions |-> JsUndefined]
    /\ getResponse = [s \in Sessions |-> NoResponse]
    /\ talkResult = [s \in Sessions |-> JsUndefined]
    /\ timer = [s \in Sessions |-> 0]
    /\ resCalls = [s \in Sessions |->
                     IF s = "r2" THEN Send(<< >>, ValidationReply) ELSE << >>]
    /\ clientGone = [s \in Sessions |-> FALSE]
    /\ creates = [s \in Sessions |-> 0]
    /\ queries = [s \in Sessions |-> 0]
    /\ waits = [s \in Sessions |-> 0]
    /\ observed = [s \in Sessions |-> 0]
    /\ elapsed = [s \in Sessions |-> 0]
    /\ inflight = [s \in Sessions |-> 0]
    /\ queryIds = [s \in Sessions |-> {}]

ProviderFairSpec == OneRequestInit /\ [][Next]_vars /\ Fairness /\ ProviderFairness

\* C1: whatever the provider answers, a session that has entered the poll
\* loop eventually leaves it (the handler is over), unless the whole process
\* has gone down.
C1_PollLoopBounded ==
    \A s \in Sessions : (pc[s] = "wait") ~> (HandlerOver(s) \/ ~procUp)

\* C2: a request hands at most one outcome to the HTTP layer, a success with
\* a result or a failure with an error kind, and never a failure after a
\* success.
C2_ExactlyOneOutcome ==
    \A s \in Sessions :
       /\ Len(resCalls[s]) <= 1
       /\ \A i \in 1..Len(resCalls[s]) :
             IsSuccess(resCalls[s][i]) => \A j \in (i+1)..Len(resCalls[s]) : ~IsFailure(resCalls[s][j])

\* C3: once a non-success creation response has been handled, the request is
\* over with the single reply 502 carrying the raw body; the body was not
\* parsed and no status query was issued.
C3_CreationRejectedAborts ==
    \A s \in Sessions :
       (createResponse[s].body # Absent /\ ~createResponse[s].ok /\ pc[s] # "createText") =>
          /\ pc[s] = "end"
          /\ Len(resCalls[s]) = 1
          /\ resCalls[s][1].code = 502
          /\ IsFailure(resCalls[s][1])
          /\ resCalls[s][1].detail = JsStr(createResponse[s].body)
          /\ creates[s] = 1
          /\ queries[s] = 0

\* C4: a status query is issued only after a successful creation that gave a
\* non-empty job identifier; with a creation body without id the session
\* issues no status query.
C4_NoQueryWithoutJobId ==
    \A s \in Sessions :
       /\ queries[s] > 0 =>
             /\ createResponse[s].ok
             /\ talkId[s].type = "string" /\ talkId[s].str # ""
             /\ "undefined" \notin queryIds[s]
       /\ createResponse[s].body = "{}" =>
             /\ queries[s] = 0
             /\ inflight[s] = 0

\* C5: a request whose text is missing or empty ends at once with the
\* validation reply, and no creation call and no status query is issued.
C5_EmptyTextNoNetwork ==
    \A s \in Sessions :
       (pc[s] # "idle" /\ text[s] \in {JsUndefined, JsStr("")}) =>
          /\ pc[s] = "end"
          /\ resCalls[s] = << Reply(400, "text required", JsUndefined, JsUndefined) >>
          /\ creates[s] = 0
          /\ queries[s] = 0
          /\ waits[s] = 0
          /\ inflight[s] = 0

C5_Witness ==
    \E s \in Sessions :
       /\ pc[s] = "end" /\ text[s] = JsStr("")
       /\ Len(resCalls[s]) = 1 /\ resCalls[s][1].code = 400

\* C6: once the latest status is done or error the session is out of the
\* loop and no step waits or queries again; the replies that follow the loop
\* exist only when the latest status is done or error.
C6_StopsAtFirstTerminal ==
    /\ [](\A s \in Sessions :
            /\ Terminal(talkResult[s]) => (HandlerOver(s) /\ inflight[s] = 0)
            /\ (\E i \in 1..Len(resCalls[s]) :
                   \/ IsSuccess(resCalls[s][i])
                   \/ resCalls[s][i].error = "D-ID processing failed")
               => Terminal(talkResult[s]))
    /\ [][\A s \in Sessions :
            Terminal(talkResult[s]) =>
               /\ waits'[s] = waits[s]
               /\ queries'[s] = queries[s]
               /\ observed'[s] = observed[s]
               /\ talkResult'[s] = talkResult[s]
               /\ ~InLoop(s)']_vars

C6_Witness ==
    \E s \in Sessions :
       /\ talkResult[s].status = "error" /\ observed[s] = 3 /\ queries[s] = 3
       /\ pc[s] = "end"

\* C7: a status query is issued only from a wait that has run its full
\* interval, with no other query of the session outstanding and every
\* earlier query answered and parsed; the first query too follows a wait.
C7_SequentialAfterFullWait ==
    /\ [](\A s \in Sessions : inflight[s] <= 1)
    /\ [][\A s \in Sessions :
            inflight'[s] > inflight[s] =>
               /\ inflight[s] = 0
               /\ pc[s] = "wait"
               /\ elapsed[s] >= FullWait
               /\ getResponse[s] = NoResponse
               /\ queries[s] < MaxPolls =>
                     /\ observed[s] = queries[s]
                     /\ waits'[s] = queries'[s]
                     /\ waits'[s] = waits[s] + 1]_vars

C7_Witness ==
    \E s \in Sessions :
       /\ queries[s] = 3 /\ waits[s] = 3 /\ observed[s] = 2
       /\ inflight[s] = 1 /\ pc[s] = "statusFetch"

\* C8: a status fetch that rejects, or a status body that does not parse,
\* ends the request in that very step with the single reply 502; the latest
\* status and the count of observed statuses are untouched, and a request
\* that is over takes no further step.
C8_StatusTransportFailureAborts ==
    [][\A s \in Sessions :
         /\ ( \/ (pc[s] = "statusFetch" /\ pc'[s] \notin {"statusFetch", "statusJson"})
              \/ (pc[s] = "statusJson" /\ getResponse[s].body = "Bad Gateway"
                     /\ pc'[s] # "statusJson") ) =>
               /\ pc'[s] = "end"
               /\ Len(resCalls'[s]) = 1
               /\ resCalls'[s][1].code = 502
               /\ IsFailure(resCalls'[s][1])
               /\ resCalls'[s][1].detail.type = "string"
               /\ talkResult'[s] = talkResult[s]
               /\ observed'[s] = observed[s]
               /\ inflight'[s] = 0
         /\ pc[s] = "end" =>
               /\ pc'[s] = "end"
               /\ queries'[s] = queries[s] /\ waits'[s] = waits[s]
               /\ inflight'[s] = inflight[s]
               /\ resCalls'[s] = resCalls[s]]_vars

C8_Witness ==
    \E s \in Sessions :
       /\ pc[s] = "end" /\ queries[s] = 2 /\ observed[s] = 1
       /\ talkResult[s].status = "pending"
       /\ Len(resCalls[s]) = 1 /\ resCalls[s][1].code = 502

\* C9: when the latest status is error the request is over with the single
\* reply 500 whose detail is that whole status payload, and no step issues
\* another status query.
C9_RemoteErrorReply ==
    /\ [](\A s \in Sessions :
            (talkResult[s].type = "object" /\ talkResult[s].status = "error") =>
               /\ pc[s] = "end"
               /\ Len(resCalls[s]) = 1
               /\ resCalls[s][1].code = 500
               /\ IsFailure(resCalls[s][1])
               /\ resCalls[s][1].detail = talkResult[s]
               /\ resCalls[s][1].detail.detail = "synthesis failed"
               /\ inflight[s] = 0)
    /\ [][\A s \in Sessions :
            talkResult[s].status = "error" =>
               (queries'[s] = queries[s] /\ inflight'[s] = 0 /\ pc'[s] = "end")]_vars

C9_Witness ==
    \E s \in Sessions :
       /\ talkResult[s].status = "error" /\ queries[s] = 1
       /\ Len(resCalls[s]) = 1 /\ resCalls[s][1].code = 500

\* C10: when the latest status is done and carries a result URL, the reply
\* the client receives (the first res.json) is the success with exactly that
\* URL, and one wait and one query were made per status observed.
C10_DoneAfterKPending ==
    \A s \in Sessions :
       (talkResult[s].type = "object" /\ talkResult[s].status = "done"
           /\ talkResult[s].result_url # Absent) =>
          /\ Len(resCalls[s]) >= 1
          /\ resCalls[s][1] = Reply(200, Absent, JsUndefined, JsStr(talkResult[s].result_url))
          /\ resCalls[s][1].videoUrl.str = "https://cdn/video.mp4"
          /\ inflight[s] = 0
          /\ queries[s] < MaxPolls =>
                (queries[s] = observed[s] /\ waits[s] = queries[s])

C10_Witness ==
    \E s \in Sessions :
       /\ talkResult[s].status = "done" /\ talkResult[s].result_url # Absent
       /\ queries[s] = 3 /\ waits[s] = 3 /\ observed[s] = 3
       /\ resCalls[s][1].videoUrl = JsStr("https://cdn/video.mp4")

\* C11: however many statuses were observed before, observing pending puts
\* the session back into a wait with a fresh timer and produces no reply;
\* no session in the loop has produced any reply.
C11_PendingNeverAnError ==
    /\ [](\A s \in Sessions : InLoop(s) => resCalls[s] = << >>)
    /\ [][\A s \in Sessions :
            (pc[s] = "statusJson" /\ getResponse[s].body = "{\"status\":\"pending\"}"
                /\ pc'[s] # "statusJson") =>
               /\ pc'[s] = "wait"
               /\ timer'[s] > 0
               /\ elapsed'[s] = 0
               /\ resCalls'[s] = << >>
               /\ talkResult'[s].status = "pending"
               /\ inflight'[s] = 0]_vars

C11_Witness ==
    \E s \in Sessions :
       /\ pc[s] = "wait" /\ talkResult[s].status = "pending"
       /\ observed[s] = MaxPolls /\ queries[s] = MaxPolls
       /\ resCalls[s] = << >>

\* The next step of session s's handler.
StepOf(s) ==
    \/ CreateFetchSettled(s)
    \/ CreateText(s)
    \/ CreateJson(s)
    \/ TimerFire(s)
    \/ StatusFetchSettled(s)
    \/ StatusJson(s)

\* The handler of s is suspended at an await.
Suspended(s) == pc[s] \in {"createFetch", "createText", "createJson"} \/ InLoop(s)

\* C12: every status query of a session used that session's own identifier;
\* a session suspended at an await can always go on (its continuation can
\* run, or time can pass for its timer), whatever the other sessions did;
\* and a step of one session's handler changes nothing that belongs to
\* another session.
C12_SessionsIsolated ==
    /\ [](\A s \in Sessions :
            /\ queryIds[s] \subseteq
                  { IF talkId[s].type = "string" THEN talkId[s].str ELSE "undefined" }
            /\ Suspended(s) => (ENABLED StepOf(s) \/ ENABLED Tick))
    /\ [][\A s, t \in Sessions :
            (s # t /\ pc'[s] # pc[s]) =>
               /\ pc'[t] = pc[t]
               /\ talkId'[t] = talkId[t]
               /\ talkResult'[t] = talkResult[t]
               /\ createResponse'[t] = createResponse[t]
               /\ getResponse'[t] = getResponse[t]
               /\ resCalls'[t] = resCalls[t]
               /\ queryIds'[t] = queryIds[t]
               /\ timer'[t] = timer[t]]_vars

C14_NonOkStatusAborts ==
    [][\A s \in Sessions :
         (pc[s] = "statusJson" /\ ~getResponse[s].ok /\ pc'[s] # "statusJson") =>
            /\ pc'[s] = "end"
            /\ Len(resCalls'[s]) = 1
            /\ resCalls'[s][1].code = 502
            /\ IsFailure(resCalls'[s][1])
            /\ talkResult'[s] = talkResult[s]
            /\ observed'[s] = observed[s]]_vars

\* C15: a request with non-empty text that passed the configuration check
\* has issued exactly one creation call, on every path; the call is issued
\* when the request arrives and never again, and a status query is issued
\* only after the creation call was answered.
C15_OneCreationCall ==
    /\ [](\A s \in Sessions :
            /\ creates[s] <= 1
            /\ (pc[s] # "idle" /\ text[s].type = "string" /\ text[s].str # ""
                   /\ DID_API_KEY # "") => creates[s] = 1
            /\ (queries[s] > 0 \/ inflight[s] > 0) =>
                  (creates[s] = 1 /\ createResponse[s].body # Absent))
    /\ [][\A s \in Sessions :
            /\ creates'[s] # creates[s] =>
                  (pc[s] = "idle" /\ creates[s] = 0 /\ queries[s] = 0 /\ inflight[s] = 0)
            /\ inflight'[s] > inflight[s] => creates[s] = 1]_vars

C15_Witness ==
    \E s \in Sessions :
       /\ creates[s] = 1 /\ ~createResponse[s].ok
       /\ createResponse[s].body = "Unauthorized"
       /\ HandlerOver(s)

\* C16: the job handle of a session is assigned once, when the creation
\* response is parsed, to the id of that response, and never changes
\* afterwards; every status query of the session carries that handle,
\* whatever the queries answer.
C16_JobHandleAssignedOnce ==
    /\ [](\A s \in Sessions :
            (InLoop(s) \/ queries[s] > 0) =>
               /\ talkId[s] = Field(ParseJson(createResponse[s].body).id)
               /\ queryIds[s] \subseteq
                     { IF talkId[s].type = "string" THEN talkId[s].str ELSE "undefined" }
               /\ queries[s] > 0 => queryIds[s] # {})
    /\ [][\A s \in Sessions :
            /\ talkId'[s] # talkId[s] =>
                  (pc[s] = "createJson" /\ talkId[s] = JsUndefined /\ queries[s] = 0)
            /\ pc'[s] = "createJson" => pc[s] \in {"createFetch", "createText", "createJson"}
            /\ (InLoop(s) \/ HandlerOver(s)) => pc'[s] # "createJson"]_vars

C16_Witness ==
    \E s \in Sessions :
       /\ talkId[s] = JsStr("abc123") /\ queryIds[s] = {"abc123"}
       /\ queries[s] >= 3 /\ observed[s] >= 2
       /\ talkResult[s].status = "pending"

\* C17: a client that goes away while its session is waiting or querying
\* changes nothing of the session but the state of its connection, and the
\* session goes on exactly as one whose client stayed: its next step is
\* enabled, and each step it takes moves it to the same place with the same
\* effect on its handle, its queries and its replies.
C17_DisconnectNoEffect ==
    /\ [](\A s \in Sessions :
            (procUp /\ clientGone[s] /\ Suspended(s)) =>
               (ENABLED StepOf(s) \/ (pc[s] = "wait" /\ timer[s] > 0 /\ ENABLED Tick)))
    /\ [][\A s \in Sessions :
            /\ clientGone'[s] # clientGone[s] =>
                  /\ clientGone'[s] /\ Suspended(s)
                  /\ UNCHANGED <<DID_API_KEY, procUp, pc, text, createResponse, bodyUsed,
                                 talkId, getResponse, talkResult, timer, resCalls, hist>>
            /\ (clientGone[s] /\ pc[s] = "wait" /\ pc'[s] # "wait") =>
                  /\ pc'[s] = "statusFetch" /\ queries'[s] = Inc(queries[s])
                  /\ resCalls'[s] = resCalls[s]
            /\ (clientGone[s] /\ pc[s] = "statusJson" /\ pc'[s] # "statusJson") =>
                  /\ pc'[s] \in {"wait", "end", "rejected"}
                  /\ pc'[s] = "wait" <=>
                        /\ ParseJson(getResponse[s].body) # ParseFailed
                        /\ LoopCond(ParseJson(getResponse[s].body))
                  /\ pc'[s] # "wait" => Len(resCalls'[s]) >= 1]_vars

C17_Witness ==
    \E s \in Sessions :
       /\ clientGone[s] /\ HandlerOver(s) /\ queries[s] >= 2
       /\ Len(resCalls[s]) >= 1 /\ IsSuccess(resCalls[s][1])

\* C18: when the creation call succeeded, and the provider does not report
\* the job as unfinished forever, and calls settle and timers fire, a session
\* in the poll loop eventually leaves it with a response handed to the HTTP
\* layer.
C18_TerminalStatusEndsSession ==
    \A s \in Sessions :
       (InLoop(s) /\ createResponse[s].ok) ~> (HandlerOver(s) /\ Len(resCalls[s]) >= 1)

C18_Witness ==
    \E s \in Sessions :
       /\ createResponse[s].ok /\ HandlerOver(s) /\ observed[s] >= 3
       /\ talkResult[s].status = "error"
       /\ Len(resCalls[s]) = 1 /\ resCalls[s][1].code = 500

\* The state ProviderFairSpec starts from is one the server reaches.
OneRequestInitReached == OneRequestInit
====
